---- MODULE Spec2Model ----
(***************************************************************************)
(* MerklePath<E, DEPTH> of console/collections/src/merkle_tree/path/mod.rs *)
(* : validated construction (try_from), verification (verify), the binary  *)
(* codec (write_le / read_le) and the size handed to the size-validated    *)
(* deserializer (deserialize).                                             *)
(*                                                                         *)
(* A u64 is kept as four 16-bit limbs, least significant first, and a u128 *)
(* as eight, so that DEPTH = 64 and leaf indices up to 2^64 - 1 are        *)
(* computed at their real width.  A field element is a natural number; the *)
(* two hashers are parameters of verify and are drawn from small families. *)
(***************************************************************************)
EXTENDS Integers, Sequences, FiniteSets, TLC

VARIABLES DEPTH, bits, path, tree, acc, buf, last

vars == <<DEPTH, bits, path, tree, acc, buf, last>>

(* ------------------------------ bounds --------------------------------- *)

\* Depths 0..MaxSmallDepth are explored exhaustively (all sibling lists, honest trees).
MaxSmallDepth == 2

\* How many bytes a buffer is cut short by, or extended by, before it is read.
MaxSlack == 2

\* The largest DEPTH try_from accepts.
MaxDepth == 64

\* Values a caller supplies for leaves and for sibling hashes.
LeafVals == {0, 1}
FieldVals == {0, 1}

\* Field::<E>::size_in_bits() of the environments explored (253 is the deployed one).
FieldBitSizes == {25, 32, 253}

Depths == (0 .. MaxSmallDepth) \cup {MaxDepth, MaxDepth + 1}

(* ------------------------- u64 / u128 arithmetic ----------------------- *)

Limb == 2 ^ 16

\* The u64 whose value is the small natural n.
U64(n) == <<n % Limb, (n \div Limb) % Limb, 0, 0>>

\* 2^d as a u64, d in 0..63.
U64Pow2(d) == [k \in 1 .. 4 |-> IF k = (d \div 16) + 1 THEN 2 ^ (d % 16) ELSE 0]

\* 2^d - 1 as a u64, d in 0..64.
U64Mask(d) ==
    [k \in 1 .. 4 |->
        IF k < (d \div 16) + 1 THEN Limb - 1
        ELSE IF k = (d \div 16) + 1 THEN 2 ^ (d % 16) - 1
        ELSE 0]

\* `x as u128`: zero extension.
AsU128(x) == x \o <<0, 0, 0, 0>>

\* `1u128 << d`, d in 0..127.
OneShl128(d) == [k \in 1 .. 8 |-> IF k = (d \div 16) + 1 THEN 2 ^ (d % 16) ELSE 0]

\* a < b on limb vectors of equal length.
LimbsLess(a, b) ==
    \E k \in 1 .. Len(a) :
        /\ a[k] < b[k]
        /\ \A j \in (k + 1) .. Len(a) : a[j] = b[j]

\* `(leaf_index as u64 wrapped) < (1u64 << DEPTH)` : the comparison done in 64 bits,
\* where the shift of DEPTH = 64 leaves nothing of the one.
IndexInRangeU64(leaf_index, depth) ==
    LimbsLess(leaf_index, [k \in 1 .. 4 |-> OneShl128(depth)[k]])

\* `(leaf_index as u128) < (1u128 << DEPTH)`.
IndexInRange(leaf_index, depth) == LimbsLess(AsU128(leaf_index), OneShl128(depth))

\* `(leaf_index >> i) & 1`, i in 0..63.
BitOf(leaf_index, i) == (leaf_index[(i \div 16) + 1] \div (2 ^ (i % 16))) % 2

(* ------------------------------ hashers -------------------------------- *)

HashError == 0 - 1

LeafHashers == {"plain", "partial"}
PathHashers == {"pair", "mix"}

\* LeafHash::hash_leaf : "plain" always succeeds, "partial" fails on leaf 1.
hash_leaf(lh, leaf) ==
    IF lh = "partial" /\ leaf = 1 THEN HashError ELSE leaf

\* PathHash::hash_children on an ordered pair.  "pair" is the Cantor pairing, injective
\* on ordered pairs and never failing; "mix" is order-sensitive, has collisions and
\* fails on the pair (1, 1).
hash_children(ph, left, right) ==
    IF ph = "pair" THEN ((left + right) * (left + right + 1)) \div 2 + right
    ELSE IF left = 1 /\ right = 1 THEN HashError
    ELSE (2 * left + right + 1) % 5

(* --------------------------- construction ------------------------------ *)

NoPath == [leaf_index |-> <<>>, siblings |-> <<>>]

Ok(p) == [err |-> "none", path |-> p]
Err(kind) == [err |-> kind, path |-> NoPath]

\* The u64 comparison in place of the u128 one.
try_from_u64(depth, leaf_index, siblings) ==
    IF ~(depth > 0) THEN Err("InvalidDepth")
    ELSE IF ~(depth <= MaxDepth) THEN Err("InvalidDepth")
    ELSE IF ~IndexInRangeU64(leaf_index, depth) THEN Err("LeafIndexOutOfBounds")
    ELSE IF ~(Len(siblings) = depth) THEN Err("PathLengthMismatch")
    ELSE Ok([leaf_index |-> leaf_index, siblings |-> siblings])

\* The length check placed before the index check.
try_from_swapped(depth, leaf_index, siblings) ==
    IF ~(depth > 0) THEN Err("InvalidDepth")
    ELSE IF ~(depth <= MaxDepth) THEN Err("InvalidDepth")
    ELSE IF ~(Len(siblings) = depth) THEN Err("PathLengthMismatch")
    ELSE IF ~IndexInRange(leaf_index, depth) THEN Err("LeafIndexOutOfBounds")
    ELSE Ok([leaf_index |-> leaf_index, siblings |-> siblings])

\* TryFrom<(u64, Vec<Field<E>>)>::try_from.  The four ensure! in order; the messages are
\* "Merkle tree depth must be greater than 0", "... less than or equal to 64"
\* (InvalidDepth), "Found an out of bounds Merkle leaf index" (LeafIndexOutOfBounds),
\* "Found an incorrect Merkle path length" (PathLengthMismatch).
try_from(depth, leaf_index, siblings) ==
    IF ~(depth > 0) THEN Err("InvalidDepth")
    ELSE IF ~(depth <= MaxDepth) THEN Err("InvalidDepth")
    ELSE IF ~IndexInRange(leaf_index, depth) THEN Err("LeafIndexOutOfBounds")
    ELSE IF ~(Len(siblings) = depth) THEN Err("PathLengthMismatch")
    ELSE Ok([leaf_index |-> leaf_index, siblings |-> siblings])

(* ---------------------------- verification ---------------------------- *)

\* What verify hands back: its boolean, or a panic; `why` is the diagnostic it prints,
\* `calls` the hasher calls it made, in order.
Returned(b, why, calls) == [panicked |-> FALSE, ret |-> b, why |-> why, calls |-> calls]
Panicked(why, calls) == [panicked |-> TRUE, ret |-> FALSE, why |-> why, calls |-> calls]

\* The recheck without its length arm.
Recheck_no_length(depth, self) ==
    IF ~IndexInRange(self.leaf_index, depth) THEN "index" ELSE "ok"

\* The defensive recheck at the head of verify: the index, else the length.
Recheck(depth, self) ==
    IF ~IndexInRange(self.leaf_index, depth) THEN "index"
    ELSE IF Len(self.siblings) # depth THEN "length"
    ELSE "ok"

\* The bit taken from the top of the DEPTH-bit index instead of from the bottom.
Indicator_msb(depth, leaf_index, i) == BitOf(leaf_index, depth - 1 - i) = 0

\* `((self.leaf_index >> i) & 1) == 0` for i in 0..DEPTH.
Indicator(depth, leaf_index, i) == BitOf(leaf_index, i) = 0

\* The two arms exchanged.
Ordering_swapped(indicator, current_hash, sibling_hash) ==
    IF indicator THEN <<sibling_hash, current_hash>> ELSE <<current_hash, sibling_hash>>

\* `match indicator { true => (current, sibling), false => (sibling, current) }`.
Ordering(indicator, current_hash, sibling_hash) ==
    IF indicator THEN <<current_hash, sibling_hash>> ELSE <<sibling_hash, current_hash>>

\* The Err arm going on to the next level instead of returning.
OnChildren_continue(h, current_hash) == [stop |-> FALSE, hash |-> h]

\* `match path_hasher.hash_children(..) { Ok(hash) => current_hash = hash, Err(_) => return false }`.
OnChildren(h, current_hash) == [stop |-> h = HashError, hash |-> h]

\* The level-0 sibling zipped with every level.
SiblingOf_first(self, i) == self.siblings[1]

\* The sibling `zip_eq(&self.siblings)` pairs with level i.
SiblingOf(self, i) == self.siblings[i + 1]

\* One turn of the loop `for (indicator, sibling_hash) in indicators.zip_eq(&self.siblings)`
\* at level i, on the state st of the run: zip_eq panics when one side has ended and the
\* other has not; a run that returned or panicked stays as it is.
Level(depth, self, ph, st, i) ==
    IF st.done THEN st
    ELSE IF i >= depth /\ i >= Len(self.siblings) THEN st
    ELSE IF i >= depth \/ i >= Len(self.siblings)
    THEN [st EXCEPT !.done = TRUE, !.panicked = TRUE, !.why = "zip_eq"]
    ELSE LET lr == Ordering(Indicator(depth, self.leaf_index, i), st.hash, SiblingOf(self, i))
             h == hash_children(ph, lr[1], lr[2])
             step == OnChildren(h, st.hash)
             made == Append(st.calls, <<"hash_children", i, lr[1], lr[2]>>)
         IN IF step.stop
            THEN [st EXCEPT !.done = TRUE, !.why = "path hash", !.calls = made]
            ELSE [st EXCEPT !.hash = step.hash, !.calls = made]

\* The turns of levels i .. j - 1 in ascending order, split in halves.
RECURSIVE Levels(_, _, _, _, _, _)
Levels(depth, self, ph, st, i, j) ==
    IF j <= i THEN st
    ELSE IF j = i + 1 THEN Level(depth, self, ph, st, i)
    ELSE LET m == (i + j) \div 2
             half == Levels(depth, self, ph, st, i, m)
         IN IF half.done THEN half ELSE Levels(depth, self, ph, half, m, j)

\* The loop, run until both sides of the zip have ended, and the final comparison.
VerifyLevels(depth, self, ph, root, current_hash, calls) ==
    LET n == IF depth > Len(self.siblings) THEN depth ELSE Len(self.siblings)
        st == Levels(depth, self, ph,
                     [done |-> FALSE, panicked |-> FALSE, why |-> "", hash |-> current_hash, calls |-> calls],
                     0, n)
    IN IF st.panicked THEN Panicked(st.why, st.calls)
       ELSE IF st.done THEN Returned(FALSE, st.why, st.calls)
       ELSE Returned(st.hash = root, IF st.hash = root THEN "match" ELSE "mismatch", st.calls)

\* MerklePath::verify.
verify(depth, self, lh, ph, root, leaf) ==
    LET check == Recheck(depth, self)
    IN IF check # "ok" THEN Returned(FALSE, check, <<>>)
       ELSE LET h == hash_leaf(lh, leaf)
            IN IF h = HashError
               THEN Returned(FALSE, "leaf hash", <<<<"hash_leaf", leaf>>>>)
               ELSE VerifyLevels(depth, self, ph, root, h, <<<<"hash_leaf", leaf>>>>)

(* ------------------------ an honestly built tree ----------------------- *)

\* The node j of level k of the tree over the leaves lv (level 0 holds the leaf nodes):
\* hash_leaf of the leaf, or hash_children of its two children; a failed hash fails
\* every node above it.
RECURSIVE Node(_, _, _, _, _)
Node(lh, ph, lv, k, j) ==
    IF k = 0 THEN hash_leaf(lh, lv[j])
    ELSE LET l == Node(lh, ph, lv, k - 1, 2 * j)
             r == Node(lh, ph, lv, k - 1, 2 * j + 1)
         IN IF l = HashError \/ r = HashError THEN HashError
            ELSE hash_children(ph, l, r)

\* The sibling of the node on the route of leaf idx at level i.
SiblingAt(lh, ph, lv, idx, i) ==
    LET j == idx \div (2 ^ i)
    IN Node(lh, ph, lv, i, IF j % 2 = 0 THEN j + 1 ELSE j - 1)

\* The siblings on the route from leaf idx to the root, level 0 first.
HonestSiblings(lh, ph, lv, depth, idx) ==
    [k \in 1 .. depth |-> SiblingAt(lh, ph, lv, idx, k - 1)]

\* The leaves a tree of the given depth is built over.
LeafVectors(depth) == [0 .. 2 ^ depth - 1 -> LeafVals]

(* ------------------------------- codec --------------------------------- *)

\* n little-endian base-256 digits of v.
RECURSIVE ToLe(_, _)
ToLe(v, n) == IF n = 0 THEN <<>> ELSE <<v % 256>> \o ToLe(v \div 256, n - 1)

\* The value of little-endian base-256 digits.
RECURSIVE FromLe(_)
FromLe(b) == IF b = <<>> THEN 0 ELSE b[1] + 256 * FromLe(Tail(b))

\* u64::write_le : eight bytes, least significant first.
U64ToLe(x) == ToLe(x[1], 2) \o ToLe(x[2], 2) \o ToLe(x[3], 2) \o ToLe(x[4], 2)

\* u64::read_le of eight bytes.
U64FromLe(b) == [k \in 1 .. 4 |-> b[2 * k - 1] + 256 * b[2 * k]]

\* The byte length of a field element's canonical encoding.
FieldBytes(nbits) == (nbits + 7) \div 8

\* Field::write_le and Field::read_le of a whole element.
FieldToLe(v, nbits) == ToLe(v, FieldBytes(nbits))
FieldFromLe(b) == FromLe(b)

\* The byte strings ss[i .. j] one after the other, split in halves.
RECURSIVE ConcatRange(_, _, _)
ConcatRange(ss, i, j) ==
    IF j < i THEN <<>>
    ELSE IF j = i THEN ss[i]
    ELSE LET m == (i + j) \div 2
         IN ConcatRange(ss, i, m) \o ConcatRange(ss, m + 1, j)

\* `self.siblings.iter().try_for_each(|sibling| sibling.write_le(&mut writer))`.
Concat(ss) == ConcatRange(ss, 1, Len(ss))

\* The siblings written before the leaf index.
write_le_index_last(self, nbits) ==
    Concat([k \in 1 .. Len(self.siblings) |-> FieldToLe(self.siblings[k], nbits)])
        \o U64ToLe(self.leaf_index)

\* ToBytes::write_le : the leaf index, then the siblings in order.
write_le(self, nbits) ==
    U64ToLe(self.leaf_index)
        \o Concat([k \in 1 .. Len(self.siblings) |-> FieldToLe(self.siblings[k], nbits)])

\* The number of bytes read_le consumes when nothing is missing.
WireLen(depth, nbits) == 8 + depth * FieldBytes(nbits)

\* A reader that takes the missing bytes of the last elements as zeros.
ReadResult_padded(depth, nbits, bytes) ==
    LET fb == FieldBytes(nbits)
        padded == bytes \o [k \in 1 .. WireLen(depth, nbits) |-> 0]
    IN IF Len(bytes) < 8 THEN Err("TruncatedInput")
       ELSE try_from(depth,
                     U64FromLe(SubSeq(padded, 1, 8)),
                     [k \in 1 .. depth |-> FieldFromLe(SubSeq(padded, 8 + (k - 1) * fb + 1, 8 + k * fb))])

\* The struct built from what was read, without try_from.
ReadResult_unvalidated(depth, nbits, bytes) ==
    LET fb == FieldBytes(nbits)
    IN IF Len(bytes) < 8 THEN Err("TruncatedInput")
       ELSE IF Len(bytes) < 8 + depth * fb THEN Err("TruncatedInput")
       ELSE Ok([leaf_index |-> U64FromLe(SubSeq(bytes, 1, 8)),
                siblings |-> [k \in 1 .. depth |-> FieldFromLe(SubSeq(bytes, 8 + (k - 1) * fb + 1, 8 + k * fb))]])

\* FromBytes::read_le : the leaf index, DEPTH field elements, then try_from; a read
\* past the end of the input is an io error (TruncatedInput).
ReadResult(depth, nbits, bytes) ==
    LET fb == FieldBytes(nbits)
    IN IF Len(bytes) < 8 THEN Err("TruncatedInput")
       ELSE IF Len(bytes) < 8 + depth * fb THEN Err("TruncatedInput")
       ELSE try_from(depth,
                     U64FromLe(SubSeq(bytes, 1, 8)),
                     [k \in 1 .. depth |-> FieldFromLe(SubSeq(bytes, 8 + (k - 1) * fb + 1, 8 + k * fb))])

\* read_le with the bytes it left unread.
read_le(depth, nbits, bytes) ==
    LET r == ReadResult(depth, nbits, bytes)
    IN [err |-> r.err, path |-> r.path,
        rest |-> IF r.err = "TruncatedInput" THEN <<>>
                 ELSE SubSeq(bytes, WireLen(depth, nbits) + 1, Len(bytes))]

\* The size with the per-element byte length taken first.
ExpectedSize_perfield(depth, nbits) == 8 + depth * ((nbits + 7) \div 8)

\* `let size = 8 + DEPTH as usize * (Field::<E>::size_in_bits() + 7) / 8;`
ExpectedSize(depth, nbits) == 8 + (depth * (nbits + 7)) \div 8

\* FromBytesDeserializer::deserialize(deserializer, "Merkle path", size): `size` bytes
\* are taken from the input, then read_le decodes them.
FromBytesDeserializer(depth, nbits, input, size) ==
    IF Len(input) < size THEN [err |-> "TruncatedInput", path |-> NoPath, taken |-> 0]
    ELSE LET r == ReadResult(depth, nbits, SubSeq(input, 1, size))
         IN [err |-> r.err, path |-> r.path, taken |-> size]

\* Deserialize::deserialize.
deserialize(depth, nbits, input) ==
    FromBytesDeserializer(depth, nbits, input, ExpectedSize(depth, nbits))

(* ------------------------------- inputs -------------------------------- *)

Min(a, b) == IF a < b THEN a ELSE b

\* Leaf indices offered to try_from and held by in-memory values: the small ones, the
\* two around 2^DEPTH, 2^63 and u64::MAX.
LeafIndices(depth) ==
    { U64(k) : k \in 0 .. 2 ^ Min(depth, MaxSmallDepth + 1) }
        \cup { U64Mask(Min(depth, 64)), U64Pow2(Min(depth, 63)), U64Pow2(63), U64Mask(64) }

SeqsOfLen(S, n) == [1 .. n -> S]

\* Sibling lists of length DEPTH - 1, DEPTH and DEPTH + 1: all of them over FieldVals
\* for a small DEPTH, four patterns of each length otherwise.
SiblingLists(depth) ==
    LET lens == { n \in {depth - 1, depth, depth + 1} : n >= 0 }
    IN IF depth <= MaxSmallDepth
       THEN UNION { SeqsOfLen(FieldVals, n) : n \in lens }
       ELSE { [k \in 1 .. n |-> (a + b * k) % 2] : n \in lens, a \in FieldVals, b \in FieldVals }

\* In-memory values of the struct, valid or not.
RawPaths(depth) ==
    { [leaf_index |-> li, siblings |-> ss] : li \in LeafIndices(depth), ss \in SiblingLists(depth) }

NoTree == [lh |-> "", ph |-> "", root |-> HashError, leaf |-> HashError]
NoAcc == [lh |-> "", ph |-> "", root |-> HashError, leaf |-> HashError, level |-> 0]

\* Roots offered to verify: the small field values and the root of the tree at hand.
Roots == (0 .. 4) \cup ({tree.root, acc.root} \ {HashError})

\* Values a sibling is replaced by.
TamperVals == FieldVals \cup {2}

\* Buffers offered to read_le, made from a written one: itself, cut short, extended,
\* or with the lowest or the highest byte of the leaf index set.
Variations(base) ==
    {base}
        \cup { SubSeq(base, 1, Len(base) - k) : k \in 1 .. Min(MaxSlack, Len(base)) }
        \cup { SubSeq(base, 1, n) : n \in {0, 7, 8} \cap (0 .. Len(base)) }
        \cup { base \o [k \in 1 .. n |-> b] : n \in 1 .. MaxSlack, b \in {0, 255} }
        \cup { [base EXCEPT ![j] = 255] : j \in {1, 8} \cap (1 .. Len(base)) }

(* ------------------------------- actions ------------------------------- *)

InitCommon ==
    /\ DEPTH \in Depths
    /\ path = NoPath
    /\ tree = NoTree
    /\ acc = NoAcc
    /\ buf = <<>>
    /\ last = [op |-> "none"]

Init == InitCommon /\ bits \in FieldBitSizes

InitTree == InitCommon /\ bits = 253

\* Nothing has been done yet.  try_from, the building of a tree and verify on a
\* free-standing value read nothing of the state, so their results are the same from
\* every state, and Next takes them from the first one only.
Fresh == last.op = "none"

\* MerklePath::try_from((leaf_index, siblings)).
Construct(leaf_index, siblings) ==
    LET res == try_from(DEPTH, leaf_index, siblings)
    IN /\ path' = res.path
       /\ tree' = NoTree
       /\ acc' = NoAcc
       /\ buf' = <<>>
       /\ last' = [op |-> "try_from", leaf_index |-> leaf_index, siblings |-> siblings, res |-> res]
       /\ UNCHANGED <<DEPTH, bits>>

\* A tree is built over the leaves lv and the path of leaf idx is taken from it.
Prove(lh, ph, lv, idx) ==
    /\ DEPTH \in 1 .. MaxSmallDepth
    /\ Node(lh, ph, lv, DEPTH, 0) # HashError
    /\ LET res == try_from(DEPTH, U64(idx), HonestSiblings(lh, ph, lv, DEPTH, idx))
       IN /\ path' = res.path
          /\ tree' = [lh |-> lh, ph |-> ph, root |-> Node(lh, ph, lv, DEPTH, 0), leaf |-> lv[idx]]
          /\ acc' = NoAcc
          /\ buf' = <<>>
          /\ last' = [op |-> "prove", leaves |-> lv, idx |-> idx, res |-> res]
    /\ UNCHANGED <<DEPTH, bits>>

\* path.verify(leaf_hasher, path_hasher, root, leaf) on the path at hand; `via` is the
\* operation that returned the path when verify follows it directly.  verify reads the
\* path and its arguments only, so it is taken once per path: not after another verify,
\* and not when the path has been written out.  A path with a replaced sibling is
\* verified with the hashers, root and leaf its original was accepted with.
Verify(lh, ph, root, leaf) ==
    /\ path # NoPath
    /\ last.op # "verify" /\ buf = <<>>
    /\ acc # NoAcc => lh = acc.lh /\ ph = acc.ph /\ root = acc.root /\ leaf = acc.leaf
    /\ ph = "pair" => DEPTH <= MaxSmallDepth
    /\ last' = [op |-> "verify", self |-> path, held |-> TRUE, via |-> last.op,
                lh |-> lh, ph |-> ph, root |-> root, leaf |-> leaf,
                out |-> verify(DEPTH, path, lh, ph, root, leaf)]
    /\ UNCHANGED <<DEPTH, bits, path, tree, acc, buf>>

\* verify on an in-memory value of the struct that did not come through try_from, valid
\* or not.
VerifyRaw(self, lh, ph, root, leaf) ==
    /\ DEPTH \in 1 .. MaxDepth
    /\ ph = "pair" => DEPTH <= MaxSmallDepth
    /\ last' = [op |-> "verify", self |-> self, held |-> FALSE, via |-> "none",
                lh |-> lh, ph |-> ph, root |-> root, leaf |-> leaf,
                out |-> verify(DEPTH, self, lh, ph, root, leaf)]
    /\ UNCHANGED <<DEPTH, bits, path, tree, acc, buf>>

\* After the path at hand verified, one of its siblings is replaced by another value
\* (once per path, and where the injective hasher is computed).
Tamper(level, v) ==
    /\ path # NoPath
    /\ acc = NoAcc
    /\ DEPTH <= MaxSmallDepth
    /\ last.op = "verify" /\ last.out.ret
    /\ level \in 1 .. Len(path.siblings)
    /\ v # path.siblings[level]
    /\ LET res == try_from(DEPTH, path.leaf_index, [path.siblings EXCEPT ![level] = v])
       IN /\ path' = res.path
          /\ last' = [op |-> "tamper", level |-> level, old |-> path.siblings[level], res |-> res]
    /\ acc' = [lh |-> last.lh, ph |-> last.ph, root |-> last.root, leaf |-> last.leaf, level |-> level]
    /\ tree' = NoTree
    /\ buf' = <<>>
    /\ UNCHANGED <<DEPTH, bits>>

\* path.write_le(&mut buf).
WriteLe ==
    /\ path # NoPath
    /\ buf' = write_le(path, bits)
    /\ last' = [op |-> "write_le", self |-> path]
    /\ UNCHANGED <<DEPTH, bits, path, tree, acc>>

\* The buffer a reader is given: the written one, or zeros of the wire length.
Wire == IF buf # <<>> THEN buf ELSE [k \in 1 .. WireLen(DEPTH, bits) |-> 0]

\* MerklePath::read_le(&input[..]).
ReadLe(input) ==
    LET r == read_le(DEPTH, bits, input)
    IN /\ path' = r.path
       /\ tree' = NoTree
       /\ acc' = NoAcc
       /\ buf' = <<>>
       /\ last' = [op |-> "read_le", input |-> input, written |-> buf, before |-> path,
                   err |-> r.err, rest |-> r.rest]
       /\ UNCHANGED <<DEPTH, bits>>

\* MerklePath::deserialize on the written bytes followed by `more` bytes of the stream.
Deserialize(more) ==
    /\ buf # <<>>
    /\ LET r == deserialize(DEPTH, bits, buf \o more)
       IN /\ path' = r.path
          /\ last' = [op |-> "deserialize", input |-> buf \o more, written |-> buf, before |-> path,
                      size |-> ExpectedSize(DEPTH, bits), err |-> r.err, taken |-> r.taken]
    /\ tree' = NoTree
    /\ acc' = NoAcc
    /\ buf' = <<>>
    /\ UNCHANGED <<DEPTH, bits>>

Next ==
    \/ Fresh /\ \E li \in LeafIndices(DEPTH), ss \in SiblingLists(DEPTH) : Construct(li, ss)
    \/ path # NoPath /\ \E lh \in LeafHashers, ph \in PathHashers, root \in Roots, leaf \in LeafVals :
          Verify(lh, ph, root, leaf)
    \/ WriteLe
    \/ (buf # <<>> \/ Fresh) /\ \E input \in Variations(Wire) : ReadLe(input)
    \/ \E n \in 0 .. MaxSlack : Deserialize([k \in 1 .. n |-> 0])

Spec == Init /\ [][Next]_vars

NextTree ==
    \/ Fresh /\ \E li \in LeafIndices(DEPTH), ss \in SiblingLists(DEPTH) : Construct(li, ss)
    \/ Fresh /\ \E lh \in LeafHashers, ph \in PathHashers, lv \in LeafVectors(Min(DEPTH, MaxSmallDepth)),
          idx \in 0 .. 2 ^ Min(DEPTH, MaxSmallDepth) - 1 : Prove(lh, ph, lv, idx)
    \/ path # NoPath /\ \E lh \in LeafHashers, ph \in PathHashers, root \in Roots, leaf \in LeafVals :
          Verify(lh, ph, root, leaf)
    \/ Fresh /\ \E self \in RawPaths(DEPTH), lh \in LeafHashers, ph \in PathHashers, root \in Roots,
          leaf \in LeafVals : VerifyRaw(self, lh, ph, root, leaf)
    \/ acc = NoAcc /\ \E level \in 1 .. MaxSmallDepth, v \in TamperVals : Tamper(level, v)

SpecTree == InitTree /\ [][NextTree]_vars

(* ------------------------------- claims -------------------------------- *)

ValidDepth == DEPTH \in 1 .. MaxDepth

\* The leaf index has a bit set at position DEPTH or above, i.e. leaf_index >= 2^DEPTH.
IndexTooLarge(leaf_index) == \E i \in DEPTH .. 63 : BitOf(leaf_index, i) = 1

\* A verify of the path at hand with the hashers, root and leaf of the record c.
VerifiedWith(c) ==
    /\ last.op = "verify" /\ last.held
    /\ last.lh = c.lh /\ last.ph = c.ph /\ last.root = c.root /\ last.leaf = c.leaf

\* C1: the path taken from an honestly built tree for one of its leaves verifies against
\* the root of that tree, with the hashers the tree was built with.
C1_HonestPathVerifies ==
    (tree # NoTree /\ VerifiedWith(tree)) => (~last.out.panicked /\ last.out.ret)

C1_Witness ==
    /\ tree # NoTree /\ VerifiedWith(tree)
    /\ DEPTH = 2 /\ path.leaf_index = U64(2) /\ tree.ph = "pair"
    /\ last.out.ret

\* C2: a path that differs in one sibling from a path that verified against a root does
\* not verify against that root with the same leaf, when hash_children is injective.
C2_TamperedPathRejected ==
    (acc # NoAcc /\ VerifiedWith(acc) /\ acc.ph = "pair") => ~last.out.ret

C2_Witness ==
    /\ acc # NoAcc /\ VerifiedWith(acc) /\ acc.ph = "pair"
    /\ acc.level = 2
    /\ ~last.out.ret /\ last.out.why = "mismatch"

\* The running hash before the k-th call of a run (the first call is hash_leaf).
RunningBefore(k) ==
    IF k = 2 THEN hash_leaf(last.lh, last.leaf)
    ELSE hash_children(last.ph, last.out.calls[k - 1][3], last.out.calls[k - 1][4])

\* C3: the call of level i is hash_children(current, siblings[i]) when bit i of the leaf
\* index is 0 and hash_children(siblings[i], current) when it is 1, levels ascending from
\* 0; after DEPTH successful levels verify returns whether the last hash equals the root.
C3_SiblingOrdering ==
    last.op = "verify" =>
        LET calls == last.out.calls
            n == Len(calls)
        IN /\ \A k \in 2 .. n :
                LET i == k - 2
                    sib == last.self.siblings[i + 1]
                    cur == RunningBefore(k)
                IN /\ calls[k][1] = "hash_children" /\ calls[k][2] = i
                   /\ BitOf(last.self.leaf_index, i) = 0 => calls[k][3] = cur /\ calls[k][4] = sib
                   /\ BitOf(last.self.leaf_index, i) = 1 => calls[k][3] = sib /\ calls[k][4] = cur
           /\ (n = DEPTH + 1 /\ RunningBefore(n + 1) # HashError)
                => (last.out.ret <=> RunningBefore(n + 1) = last.root)

\* DEPTH = 2, leaf_index = 2, siblings [S0, S1] = [0, 1], leaf hash 1:
\* H0 = hash_children(1, 0), H1 = hash_children(1, H0), accepted with root H1.
C3_Witness ==
    /\ last.op = "verify" /\ DEPTH = 2 /\ last.ph = "pair"
    /\ last.self = [leaf_index |-> U64(2), siblings |-> <<0, 1>>]
    /\ last.out.calls = << <<"hash_leaf", 1>>, <<"hash_children", 0, 1, 0>>,
                           <<"hash_children", 1, 1, hash_children("pair", 1, 0)>> >>
    /\ last.root = hash_children("pair", 1, hash_children("pair", 1, 0))
    /\ last.out.ret

\* A hash_children call of the run failed.
SomeChildrenCallFailed ==
    \E k \in 2 .. Len(last.out.calls) :
        hash_children(last.ph, last.out.calls[k][3], last.out.calls[k][4]) = HashError

\* C4: verify returns a boolean on every in-memory value, and the boolean is false when
\* the index or the length is out of line, when hash_leaf fails, when a hash_children
\* call fails, or when the last hash differs from the root.
C4_VerifyTotal ==
    last.op = "verify" =>
        /\ ~last.out.panicked
        /\ IndexTooLarge(last.self.leaf_index) => ~last.out.ret /\ last.out.calls = <<>>
        /\ Len(last.self.siblings) # DEPTH => ~last.out.ret /\ last.out.calls = <<>>
        /\ hash_leaf(last.lh, last.leaf) = HashError => ~last.out.ret
        /\ SomeChildrenCallFailed => ~last.out.ret
        /\ last.out.ret =>
              /\ Len(last.out.calls) = DEPTH + 1
              /\ RunningBefore(DEPTH + 2) = last.root

\* An in-memory value whose index is in range and whose sibling list is too long.
C4_Witness ==
    /\ last.op = "verify" /\ ~last.held
    /\ ~IndexTooLarge(last.self.leaf_index)
    /\ Len(last.self.siblings) = DEPTH + 1
    /\ ~last.out.panicked /\ ~last.out.ret

\* C5: try_from reports the first violated invariant in the order depth, index, length,
\* and succeeds when none is violated; with DEPTH in 1..64 it reports the index exactly
\* when leaf_index >= 2^DEPTH, which no u64 is for DEPTH = 64.
C5_ConstructOrder ==
    last.op = "try_from" =>
        LET e == last.res.err
            big == IndexTooLarge(last.leaf_index)
            len == Len(last.siblings)
        IN /\ ~ValidDepth => e = "InvalidDepth"
           /\ (ValidDepth /\ big) => e = "LeafIndexOutOfBounds"
           /\ (ValidDepth /\ ~big /\ len # DEPTH) => e = "PathLengthMismatch"
           /\ (ValidDepth /\ ~big /\ len = DEPTH) =>
                 /\ e = "none"
                 /\ path = [leaf_index |-> last.leaf_index, siblings |-> last.siblings]
           /\ ValidDepth => (e = "LeafIndexOutOfBounds" <=> big)
           /\ DEPTH = MaxDepth => e # "LeafIndexOutOfBounds"
           /\ e # "none" => path = NoPath

\* DEPTH = 64 takes u64::MAX.
C5_Witness ==
    /\ last.op = "try_from" /\ DEPTH = MaxDepth
    /\ last.leaf_index = U64Mask(64)
    /\ last.res.err = "none" /\ path # NoPath

\* C6 as stated: PathLengthMismatch exactly when the length differs from DEPTH, whatever
\* the leaf index.
C6_Original ==
    last.op = "try_from" =>
        (last.res.err = "PathLengthMismatch" <=> Len(last.siblings) # DEPTH)

\* C6 amended: PathLengthMismatch exactly when DEPTH is in 1..64, the leaf index is below
\* 2^DEPTH and the length differs from DEPTH.
C6_LengthMismatch ==
    last.op = "try_from" =>
        (last.res.err = "PathLengthMismatch"
            <=> (ValidDepth /\ ~IndexTooLarge(last.leaf_index) /\ Len(last.siblings) # DEPTH))

\* A list too long and one too short, each reported.
C6_Witness ==
    /\ last.op = "try_from" /\ DEPTH = 2
    /\ Len(last.siblings) = 3
    /\ last.leaf_index = U64(3)
    /\ last.res.err = "PathLengthMismatch"

\* Byte j (1..8) of a u64, least significant first.
ByteOf(x, j) == (x[(j + 1) \div 2] \div (IF j % 2 = 1 THEN 1 ELSE 256)) % 256

\* The bytes of the k-th field element of a buffer.
FieldSlice(bytes, k) == SubSeq(bytes, 8 + (k - 1) * FieldBytes(bits) + 1, 8 + k * FieldBytes(bits))

\* C7: write_le puts the leaf index in the first eight bytes, least significant first,
\* then the siblings level 0 first, each in its fixed length; read_le of the bytes
\* written for a valid path succeeds and gives back the same leaf index and siblings.
C7_RoundTrip ==
    /\ last.op = "write_le" =>
          /\ \A j \in 1 .. 8 : buf[j] = ByteOf(path.leaf_index, j)
          /\ \A k \in 1 .. DEPTH :
                /\ FieldSlice(buf, k)[1] = path.siblings[k] % 256
                /\ FromLe(FieldSlice(buf, k)) = path.siblings[k]
    /\ (last.op = "read_le" /\ last.before # NoPath /\ last.input = last.written) =>
          /\ last.err = "none"
          /\ path = last.before
          /\ last.rest = <<>>

C7_Witness ==
    /\ last.op = "read_le" /\ last.before # NoPath /\ last.input = last.written
    /\ DEPTH = 2 /\ bits = 253
    /\ last.before = [leaf_index |-> U64(2), siblings |-> <<0, 1>>]
    /\ path = last.before

\* C8: the size handed to the deserializer is the number of bytes write_le wrote for the
\* path, 8 + DEPTH * field_element_byte_length.
C8_SizeIsEncodedLength ==
    (last.op = "deserialize" /\ ValidDepth) =>
        /\ last.size = Len(last.written)
        /\ last.size = 8 + DEPTH * FieldBytes(bits)

CeilSize == 8 + (DEPTH * bits + 7) \div 8

RecheckPasses == ~IndexTooLarge(last.self.leaf_index) /\ Len(last.self.siblings) = DEPTH

\* The k-th hasher call of the run failed (the first call is hash_leaf).
CallFailed(k) ==
    IF k = 1 THEN hash_leaf(last.lh, last.leaf) = HashError
    ELSE hash_children(last.ph, last.out.calls[k][3], last.out.calls[k][4]) = HashError

\* The calls are hash_leaf, then hash_children for levels 0, 1, .. in ascending order.
CallsInOrder(calls) ==
    /\ Len(calls) >= 1
    /\ calls[1] = <<"hash_leaf", last.leaf>>
    /\ \A k \in 2 .. Len(calls) : calls[k][1] = "hash_children" /\ calls[k][2] = k - 2

\* C11 as stated: when the recheck passes verify calls hash_leaf once and hash_children
\* DEPTH times whatever happens in the loop; when it fails verify returns false with no
\* hasher call.
C11_Original ==
    last.op = "verify" =>
        /\ RecheckPasses => (CallsInOrder(last.out.calls) /\ Len(last.out.calls) = DEPTH + 1)
        /\ ~RecheckPasses => (~last.out.ret /\ last.out.calls = <<>>)

\* C11 amended: when the recheck passes verify calls hash_leaf once, then hash_children
\* for levels 0, 1, .. in ascending order, each level at most once, until a call fails or
\* DEPTH levels are done: a failed call is the last one and verify returns false after
\* it, and when no call fails there are exactly DEPTH hash_children calls, whatever the
\* leaf index and whatever the intermediate hashes.  When the recheck fails verify
\* returns false with no hasher call.
C11_CallSequence ==
    last.op = "verify" =>
        LET calls == last.out.calls
            n == Len(calls)
        IN /\ ~last.out.panicked
           /\ RecheckPasses =>
                 /\ CallsInOrder(calls)
                 /\ n <= DEPTH + 1
                 /\ \A k \in 1 .. n - 1 : ~CallFailed(k)
                 /\ n < DEPTH + 1 => CallFailed(n)
                 /\ CallFailed(n) => ~last.out.ret
           /\ ~RecheckPasses => (~last.out.ret /\ calls = <<>>)

\* All DEPTH levels are hashed although the hash after level 0 already equals the root.
C11_Witness ==
    /\ last.op = "verify" /\ RecheckPasses
    /\ DEPTH = 2 /\ BitOf(last.self.leaf_index, 0) = 1
    /\ Len(last.out.calls) = DEPTH + 1
    /\ RunningBefore(3) = last.root
    /\ ~CallFailed(3)

\* The three invariants of the type hold of the value p.
TypeInvariant(p) ==
    /\ ValidDepth
    /\ ~IndexTooLarge(p.leaf_index)
    /\ Len(p.siblings) = DEPTH

\* C12: a path returned by try_from, read_le or deserialize has DEPTH in 1..64, its leaf
\* index below 2^DEPTH and DEPTH siblings; read_le returns the leaf index and the DEPTH
\* field elements it read when try_from accepts them and the error of try_from when it
\* does not; and the recheck of verify passes on a path that came from them.
C12_TypeInvariant ==
    /\ path # NoPath => TypeInvariant(path)
    /\ ~ValidDepth => path = NoPath
    /\ (last.op = "read_le" /\ Len(last.input) >= WireLen(DEPTH, bits)) =>
          LET leaf_index == U64FromLe(SubSeq(last.input, 1, 8))
              siblings == [k \in 1 .. DEPTH |-> FromLe(FieldSlice(last.input, k))]
          IN /\ last.err = try_from(DEPTH, leaf_index, siblings).err
             /\ last.err = "none" <=> path = [leaf_index |-> leaf_index, siblings |-> siblings]
             /\ last.err = "none" <=> (ValidDepth /\ ~IndexTooLarge(leaf_index))
    /\ (last.op = "deserialize" /\ last.err = "none") => TypeInvariant(path)
    /\ (last.op = "verify" /\ last.held) =>
          /\ RecheckPasses
          /\ last.out.why \notin {"index", "length"}
          /\ last.out.calls # <<>>

\* A path with bit 63 of its leaf index set, returned by read_le for DEPTH = 64, and
\* then verified: the recheck passed and the hashers were called.
C12_Witness ==
    /\ last.op = "verify" /\ last.held /\ last.via = "read_le"
    /\ DEPTH = MaxDepth
    /\ BitOf(path.leaf_index, 63) = 1
    /\ TypeInvariant(path)
    /\ last.out.calls # <<>>

====
